---- MODULE Spec2Model ----
(***************************************************************************)
(* Mirror-job subsystem and Simplestream tree publisher of customstream:   *)
(* request intake (app/api/routes.py), job queue and worker loop           *)
(* (app/services/mirror_job.py), mirror engine (app/services/mirror.py),   *)
(* storage I/O (app/services/storage.py), tree publisher                   *)
(* (app/services/simplestream.py), custom images and image deletion        *)
(* (app/services/custom.py), startup recovery (app/main.py).               *)
(*                                                                         *)
(* Every coroutine is cut at its await points: one action is the code      *)
(* between two awaits at which another coroutine's commit can be observed. *)
(* The database holds committed rows only; rows a session has flushed but  *)
(* not committed live in that coroutine's local state.                     *)
(***************************************************************************)
EXTENDS Integers, Sequences, FiniteSets, TLC

\* ------------------------------------------------------------------ bounds
MaxJobs == 2          \* MirrorJob rows ever created
MaxCrashes == 1       \* process kills
MaxAdmin == 1         \* image deletions plus custom-image uploads ever started
MaxChunks == 3        \* chunks of one response body
LongText == 2000      \* characters of the longest exception text
ShortText == 20       \* characters of the other exception texts

\* --------------------------------------------------------------- universe
None == "none"
EmptyFn == [x \in {} |-> None]

Requests == {1, 2}                       \* concurrent POST /mirror handlers
Products == {"p1", "p2"}                 \* upstream product ids
CustomProduct == "c1"                    \* product id derived by create_custom_image
UpstreamStream == "s1"                   \* the upstream stream listing Products
ProductOrder == <<"c1", "p1", "p2">>     \* ascending string order of the ids

\* Response bodies served by upstream or uploaded: byte strings.
Bodies == {<<>>, <<1>>}

\* hashlib.sha256(...).hexdigest(): injective on the bodies of the model.
Sha256(body) == <<"sha256", body>>

\* Python truthiness of Artifact.size (an integer) and of Artifact.sha256 (a
\* string; NoSha is the empty one).
NoSha == <<>>
TruthySize(n) == n # 0
TruthySha(h) == h # NoSha

\* The products file advertises, per item, the size and sha256 of DeclaredBody.
DeclaredBody == <<1>>
UpstreamItem(name, path) ==
    [name |-> name, path |-> path, ftype |-> name,
     size |-> Len(DeclaredBody), sha256 |-> Sha256(DeclaredBody)]

\* Possible items maps of the selected version (insertion order kept).
ItemMaps ==
    { <<>>,
      <<UpstreamItem("a", "f1")>>,
      <<UpstreamItem("a", "f1"), UpstreamItem("b", "f2")>> }

\* Version keys are strings of digits, written as tuples of digits.
NoVersion == <<>>
DeclaredVersion == <<1, 0>>

\* str.__lt__ / __le__: code point by code point, a proper prefix first.
RECURSIVE StrLeq(_, _)
StrLeq(a, b) ==
    IF a = <<>> THEN TRUE
    ELSE IF b = <<>> THEN FALSE
    ELSE IF a[1] # b[1] THEN a[1] < b[1]
    ELSE StrLeq(Tail(a), Tail(b))

\* The versions mapping of a product: version key -> items map.
NoVersions == [k \in {} |-> <<>>]
OneVersion(m) == [k \in {DeclaredVersion} |-> m]

\* Versions mappings whose keys order differently as strings and as numbers.
VersionMaps ==
    { NoVersions,
      [k \in {<<1, 0>>} |-> <<UpstreamItem("a", "f1")>>],
      [k \in {<<9>>, <<1, 0>>} |->
          IF k = <<9>> THEN <<UpstreamItem("a", "f1")>> ELSE <<UpstreamItem("b", "f2")>>],
      [k \in {<<1, 0>>, <<1, 1>>} |->
          IF k = <<1, 1>> THEN <<UpstreamItem("a", "f1"), UpstreamItem("b", "f2")>>
          ELSE <<UpstreamItem("a", "f1")>>] }

\* Possible product lists of a mirror request.
ProductLists == { <<>>, <<"p1">>, <<"p2">>, <<"p1", "p1">> }

\* Upload sets of a custom image: FILE_TYPE_MAP item key and destination.
UploadSets ==
    { <<[name |-> "boot-kernel", path |-> "k1"]>> }

Paths == {"f1", "f2", "k1"}
NoFile == <<-1>>                         \* no file at the path (not a byte string)

\* ------------------------------------------------------------------ state
VARIABLES
    up,            \* the process is running (startup_event has completed)
    crashes,       \* process kills so far
    admin,         \* deletions and uploads started so far
    jobs,          \* mirror_jobs table, committed rows; id = index, created_at ascending
    resumed,       \* history: ids of the jobs resume_pending_jobs has requeued
    metaFlushed,   \* the ORM puts the meta column into the UPDATE of a re-assigned meta
    streams,       \* streams table, committed stream_ids
    images,        \* images table, committed rows
    artifacts,     \* artifacts table, committed rows
    disk,          \* artifact files under storage_root: path -> body or NoFile
    tree,          \* published tree: index.json and the products files
    requests,      \* POST /mirror handlers: position and locals
    response,      \* the latest answer of POST /mirror: status and MirrorResult
    worker,        \* _process_queue coroutine: position and locals
    workerTask,    \* _worker_task: "none", "running" or "done"
    workerLock,    \* _worker_lock is held
    deleter,       \* DELETE /images/{id} handler
    uploader       \* POST /custom/images handler

vars == <<up, crashes, admin, jobs, resumed, metaFlushed, streams, images, artifacts, disk,
          tree, requests, response, worker, workerTask, workerLock, deleter,
          uploader>>

dbVars == <<jobs, streams, images, artifacts>>

\* ------------------------------------------------------------ initial state
IdleRequest ==
    [pc |-> "idle", product_ids |-> <<>>, i |-> 1, pending |-> <<>>,
     enqueued |-> <<>>, skipped |-> <<>>]

NoResponse == [status |-> 0, enqueued |-> <<>>, skipped |-> <<>>]

NoSnapshot == [streams |-> {}, images |-> {}, artifacts |-> {}]

\* entry_copy as the Image is created: no items yet.
initial_entry == [items |-> <<>>, status_detail |-> "Downloading artifacts", error |-> None]

IdleWorker ==
    [pc |-> "idle", job_id |-> 0, product_id |-> None, image_id |-> 0,
     existing |-> 0, items |-> <<>>, idx |-> 1, artifact_rows |-> <<>>,
     entry |-> initial_entry, exc |-> None, snapshot |-> NoSnapshot,
     versions |-> NoVersions, version_key |-> NoVersion, chunks |-> <<>>]

IdleDeleter == [pc |-> "idle", snapshot |-> NoSnapshot]

IdleUploader == [pc |-> "idle", image_id |-> 0, snapshot |-> NoSnapshot]

\* Nothing published yet: index.json entries, products files (product ->
\* entry) and the order in which each products file lists its products.
EmptyTree == [index |-> EmptyFn, files |-> EmptyFn, order |-> EmptyFn]

Init ==
    /\ up = FALSE
    /\ crashes = 0
    /\ admin = 0
    /\ jobs = <<>>
    /\ resumed = {}
    /\ metaFlushed \in BOOLEAN
    /\ streams = {}
    /\ images = {}
    /\ artifacts = {}
    /\ disk = [p \in Paths |-> NoFile]
    /\ tree = EmptyTree
    /\ requests = [r \in Requests |-> IdleRequest]
    /\ response = NoResponse
    /\ worker = IdleWorker
    /\ workerTask = "none"
    /\ workerLock = FALSE
    /\ deleter = IdleDeleter
    /\ uploader = IdleUploader

procVars == <<up, crashes, admin>>

\* ------------------------------------------------------------ table helpers
ActiveStatuses == {"queued", "running"}
TerminalStatuses == {"completed", "failed"}

NewJob(product_id) ==
    [product_id |-> product_id, status |-> "queued", progress |-> 0,
     started_at |-> FALSE, finished_at |-> FALSE, image_id |-> 0,
     message |-> None, message_len |-> 0]

JobIds == 1..Len(jobs)

\* SQLite rowid of the next INSERT into images: largest id in the table plus one.
NextImageId(rows) ==
    IF rows = {} THEN 1
    ELSE (CHOOSE m \in {im.id : im \in rows} : \A im \in rows : im.id <= m) + 1

ImageArtifacts(rows, image_id) == {a \in rows : a.image_id = image_id}

\* session.delete(image): the row goes, its artifacts cascade, and the
\* MirrorJob that references it (Image.mirror_job) has image_id set to NULL.
DeleteImageRows(image_id) ==
    /\ images' = {im \in images : im.id # image_id}
    /\ artifacts' = {a \in artifacts : a.image_id # image_id}

NullifyJobs(js, image_id) ==
    [j \in DOMAIN js |->
        IF image_id # 0 /\ js[j].image_id = image_id
        THEN [js[j] EXCEPT !.image_id = 0] ELSE js[j]]

Range(seq) == {seq[k] : k \in DOMAIN seq}

\* Variant: nothing is removed.
safe_remove_kept(d, S) == d

\* safe_remove(path) for every path of S.
safe_remove(d, S) == [p \in Paths |-> IF p \in S THEN NoFile ELSE d[p]]

\* ------------------------------------------------------------------ intake
\* select(Image).where(product_id == ..., status == "mirroring")
active_image(rows, product_id) ==
    \E im \in rows : im.product_id = product_id /\ im.status = "mirroring"

\* Variant: only running jobs count as active.
find_active_job_running(committed, pending, product_id) ==
    \/ \E j \in DOMAIN committed :
          committed[j].product_id = product_id /\ committed[j].status = "running"
    \/ \E k \in DOMAIN pending : pending[k] = product_id

\* Variant: the rows this session has flushed are not seen.
find_active_job_committed(committed, pending, product_id) ==
    \E j \in DOMAIN committed :
        committed[j].product_id = product_id /\ committed[j].status \in ActiveStatuses

\* find_active_job: a queued or running job of the product, among the committed
\* rows and the rows this session has flushed.
find_active_job(committed, pending, product_id) ==
    \/ \E j \in DOMAIN committed :
          committed[j].product_id = product_id /\ committed[j].status \in ActiveStatuses
    \/ \E k \in DOMAIN pending : pending[k] = product_id


\* Variant: a new task is spawned on every call.
trigger_job_runner_always ==
    /\ workerTask' = "running"
    /\ worker' = [IdleWorker EXCEPT !.pc = "start"]

\* trigger_job_runner(): no-op while the task exists and is not done.
trigger_job_runner ==
    IF workerTask = "running"
    THEN UNCHANGED <<worker, workerTask>>
    ELSE /\ workerTask' = "running"
         /\ worker' = [IdleWorker EXCEPT !.pc = "start"]

\* Jobs a handler may still insert: nothing of it is committed before "trigger".
MayStillEnqueue(q) ==
    IF q.pc \in {"check", "finish"}
    THEN Len(q.product_ids) - Len(q.skipped) ELSE 0

\* POST /mirror arrives with a product list.
ReqStart(r, pids) ==
    /\ up
    /\ requests[r].pc = "idle"
    /\ \A o \in Requests \ {r} :
          Len(jobs) + MayStillEnqueue(requests[o]) + Len(pids) <= MaxJobs
    /\ requests' = [requests EXCEPT ![r] =
          [IdleRequest EXCEPT !.pc = IF pids = <<>> THEN "finish" ELSE "check",
                              !.product_ids = pids]]
    /\ UNCHANGED <<procVars, dbVars, resumed, metaFlushed, disk, tree, response, worker,
                   workerTask, workerLock, deleter, uploader>>

\* One pass of the loop over product_ids: the mirroring-image check, then
\* find_active_job, then enqueue_job. The INSERT is flushed inside the
\* request's transaction, where no other session sees it before the commit.
ReqCheck(r) ==
    LET q == requests[r]
        pid == q.product_ids[q.i]
        reason == IF active_image(images, pid) THEN "already mirroring"
                  ELSE IF find_active_job(jobs, q.pending, pid) THEN "already queued"
                  ELSE None
        last == q.i = Len(q.product_ids)
    IN /\ up
       /\ q.pc = "check"
       /\ requests' = [requests EXCEPT ![r] =
            IF reason = None
            THEN [q EXCEPT !.pending = Append(@, pid),
                           !.enqueued = Append(@, pid),
                           !.i = @ + 1,
                           !.pc = IF last THEN "finish" ELSE "check"]
            ELSE [q EXCEPT !.skipped = Append(@, <<pid, reason>>),
                           !.i = @ + 1,
                           !.pc = IF last THEN "finish" ELSE "check"]]
       /\ UNCHANGED <<procVars, dbVars, resumed, metaFlushed, disk, tree, response, worker,
                      workerTask, workerLock, deleter, uploader>>

\* Variant: every request is answered 200.
Answer_always_ok(status, q) == [status |-> 200, enqueued |-> q.enqueued, skipped |-> q.skipped]

\* The response of mirror_products: the HTTP status and the MirrorResult.
Answer(status, q) == [status |-> status, enqueued |-> q.enqueued, skipped |-> q.skipped]

\* After the loop: 400 on nothing enqueued and nothing skipped; commit when
\* something was enqueued; else the MirrorResult is returned as it is.
ReqFinish(r) ==
    LET q == requests[r]
        rows == [k \in 1..Len(q.pending) |-> NewJob(q.pending[k])]
    IN /\ up
       /\ q.pc = "finish"
       /\ IF q.enqueued = <<>> /\ q.skipped = <<>>
          THEN /\ requests' = [requests EXCEPT ![r] = IdleRequest]
               /\ response' = Answer(400, q)
               /\ UNCHANGED jobs
          ELSE IF q.enqueued # <<>>
          THEN /\ jobs' = jobs \o rows
               /\ requests' = [requests EXCEPT ![r] = [q EXCEPT !.pc = "trigger", !.pending = <<>>]]
               /\ UNCHANGED response
          ELSE /\ requests' = [requests EXCEPT ![r] = IdleRequest]
               /\ response' = Answer(200, q)
               /\ UNCHANGED jobs
       /\ UNCHANGED <<procVars, resumed, metaFlushed, streams, images, artifacts, disk,
                      tree, worker, workerTask, workerLock, deleter, uploader>>

\* The commit has returned: signal the worker and answer.
ReqTrigger(r) ==
    LET q == requests[r]
    IN /\ up
       /\ q.pc = "trigger"
       /\ trigger_job_runner
       /\ requests' = [requests EXCEPT ![r] = IdleRequest]
       /\ response' = Answer(200, q)
       /\ UNCHANGED <<procVars, dbVars, resumed, metaFlushed, disk, tree, workerLock,
                      deleter, uploader>>

\* --------------------------------------------------------------- publisher
SortProducts(S) == SelectSeq(ProductOrder, LAMBDA p : p \in S)

Snapshot == [streams |-> streams, images |-> images, artifacts |-> artifacts]

\* items[artifact.name] overridden from the Artifact row: path always, sha256
\* and size when the row's value is truthy.
override_item(item, rows) ==
    IF \E a \in rows : a.name = item.name
    THEN LET a == CHOOSE a \in rows : a.name = item.name
         IN [item EXCEPT !.path = a.relative_path,
                         !.sha256 = IF TruthySha(a.sha256) THEN a.sha256 ELSE @,
                         !.size = IF TruthySize(a.size) THEN a.size ELSE @]
    ELSE item

\* The entry of one image: a deep copy of image.meta with the items overridden.
image_entry(im, rows) ==
    [im.meta EXCEPT !.items = [k \in DOMAIN im.meta.items |-> override_item(im.meta.items[k], rows)]]

\* "if not entry: continue": the metas the engine and the upload path build
\* always hold the versions key, so none is empty.
meta_empty(meta) == FALSE

\* Variant: only the images that are not ready are written.
write_stream_products_not_ready(snap, s) ==
    LET imgs == {im \in snap.images : im.stream_id = s /\ im.status # "ready"}
    IN [p \in {im.product_id : im \in imgs} |->
          LET im == CHOOSE im \in imgs : im.product_id = p
          IN image_entry(im, ImageArtifacts(snap.artifacts, im.id))]

\* Variant: only the ready images are written.
write_stream_products_ready_only(snap, s) ==
    LET imgs == {im \in snap.images : im.stream_id = s /\ im.status = "ready"}
    IN [p \in {im.product_id : im \in imgs} |->
          LET im == CHOOSE im \in imgs : im.product_id = p
          IN image_entry(im, ImageArtifacts(snap.artifacts, im.id))]

\* _write_stream_products: every image of the stream whose meta is not empty.
write_stream_products(snap, s) ==
    LET imgs == {im \in snap.images : im.stream_id = s /\ ~meta_empty(im.meta)}
    IN [p \in {im.product_id : im \in imgs} |->
          LET im == CHOOSE im \in imgs : im.product_id = p
          IN image_entry(im, ImageArtifacts(snap.artifacts, im.id))]

\* rebuild_simplestream_files, the part after the snapshot is loaded: an index
\* entry and a products file per stream that has images, then index.json.
rebuild_simplestream_files(snap, old) ==
    LET nonempty == {s \in snap.streams : \E im \in snap.images : im.stream_id = s}
    IN [index |-> [s \in nonempty |->
                     SortProducts({im.product_id : im \in {x \in snap.images : x.stream_id = s}})],
        files |-> [s \in (DOMAIN old.files) \cup nonempty |->
                     IF s \in nonempty THEN write_stream_products(snap, s) ELSE old.files[s]],
        order |-> [s \in (DOMAIN old.files) \cup nonempty |->
                     IF s \in nonempty
                     THEN SortProducts(DOMAIN write_stream_products(snap, s))
                     ELSE old.order[s]]]

\* The images of a stream as the relationship loads them: in any order.
LoadOrders(imgs) ==
    {q \in [1..Cardinality(imgs) -> imgs] : \A i, j \in DOMAIN q : q[i] = q[j] => i = j}

\* Position of a product id in ascending string order.
Rank(p) == CHOOSE k \in DOMAIN ProductOrder : ProductOrder[k] = p

RECURSIVE InsertByProduct(_, _)
InsertByProduct(im, seq) ==
    IF seq = <<>> THEN <<im>>
    ELSE IF Rank(im.product_id) < Rank(seq[1].product_id) THEN <<im>> \o seq
    ELSE <<seq[1]>> \o InsertByProduct(im, Tail(seq))

\* Variant: the images are taken in the order they were loaded.
as_loaded(loaded) == loaded

\* sorted(stream.images, key=lambda item: item.product_id)
RECURSIVE sorted_images(_)
sorted_images(loaded) ==
    IF loaded = <<>> THEN <<>>
    ELSE InsertByProduct(loaded[Len(loaded)],
                         sorted_images(SubSeq(loaded, 1, Len(loaded) - 1)))

\* rebuild_simplestream_files with the load order of every stream's images
\* made explicit: load maps each stream that has images to its loaded list.
rebuild_as_loaded(load, snap, old) ==
    LET nonempty == DOMAIN load
        listed(s) == sorted_images(load[s])
        written(s) == SelectSeq(listed(s), LAMBDA im : ~meta_empty(im.meta))
    IN [index |-> [s \in nonempty |-> [k \in DOMAIN listed(s) |-> listed(s)[k].product_id]],
        files |-> [s \in (DOMAIN old.files) \cup nonempty |->
                     IF s \in nonempty
                     THEN [p \in {written(s)[k].product_id : k \in DOMAIN written(s)} |->
                             LET im == CHOOSE im \in Range(written(s)) : im.product_id = p
                             IN image_entry(im, ImageArtifacts(snap.artifacts, im.id))]
                     ELSE old.files[s]],
        order |-> [s \in (DOMAIN old.files) \cup nonempty |->
                     IF s \in nonempty
                     THEN [k \in DOMAIN written(s) |-> written(s)[k].product_id]
                     ELSE old.order[s]]]

\* ------------------------------------------------------------- worker loop
handlerVars == <<requests, response, deleter, uploader>>

\* Variant: the newest queued job.
newest_queued(js) ==
    IF \E j \in DOMAIN js : js[j].status = "queued"
    THEN CHOOSE j \in DOMAIN js :
            /\ js[j].status = "queued"
            /\ \A k \in DOMAIN js : js[k].status = "queued" => k <= j
    ELSE 0

\* Variant: the oldest job that is not running, whatever its status.
oldest_not_running(js) ==
    IF \E j \in DOMAIN js : js[j].status # "running"
    THEN CHOOSE j \in DOMAIN js :
            /\ js[j].status # "running"
            /\ \A k \in DOMAIN js : js[k].status # "running" => j <= k
    ELSE 0

\* The oldest queued job (order_by created_at asc), 0 when there is none.
oldest_queued(js) ==
    IF \E j \in DOMAIN js : js[j].status = "queued"
    THEN CHOOSE j \in DOMAIN js :
            /\ js[j].status = "queued"
            /\ \A k \in DOMAIN js : js[k].status = "queued" => j <= k
    ELSE 0

\* async with _worker_lock
W_Acquire ==
    /\ up
    /\ worker.pc = "start"
    /\ ~workerLock
    /\ workerLock' = TRUE
    /\ worker' = [worker EXCEPT !.pc = "select"]
    /\ UNCHANGED <<procVars, dbVars, resumed, metaFlushed, disk, tree, handlerVars, workerTask>>

\* Top of the loop: select the oldest queued job; none: break. Otherwise
\* running, started_at, message None, progress 10, commit.
W_Select ==
    LET j == oldest_queued(jobs)
    IN /\ up
       /\ worker.pc = "select"
       /\ IF j = 0
          THEN /\ worker' = [worker EXCEPT !.pc = "closing"]
               /\ UNCHANGED jobs
          ELSE /\ jobs' = [jobs EXCEPT ![j] =
                    [@ EXCEPT !.status = "running", !.started_at = TRUE,
                              !.message = None, !.message_len = 0,
                              !.progress = 10]]
               /\ worker' = [IdleWorker EXCEPT !.pc = "fetch", !.job_id = j,
                                               !.product_id = jobs[j].product_id]
       /\ UNCHANGED <<procVars, resumed, metaFlushed, streams, images, artifacts, disk, tree,
                      handlerVars, workerTask, workerLock>>

\* After the break: the session closes, the mutex is released, the task ends.
W_Exit ==
    /\ up
    /\ worker.pc = "closing"
    /\ worker' = IdleWorker
    /\ workerLock' = FALSE
    /\ workerTask' = "done"
    /\ UNCHANGED <<procVars, dbVars, resumed, metaFlushed, disk, tree, handlerVars>>

\* Variant: the job is completed without its image_id.
mark_job_completed_no_image(js, job_id, image_id) ==
    [js EXCEPT ![job_id] =
        [@ EXCEPT !.status = "completed", !.progress = 100, !.finished_at = TRUE]]

\* _mark_job_completed
mark_job_completed(js, job_id, image_id) ==
    [js EXCEPT ![job_id] =
        [@ EXCEPT !.status = "completed", !.progress = 100,
                  !.finished_at = TRUE, !.image_id = image_id]]

\* message[:2000] on a message of len characters.
MessageLimit == 2000
Truncate(len) == IF len > MessageLimit THEN MessageLimit ELSE len

\* Variant: the message is stored whole.
mark_job_failed_whole(js, job_id, message, len) ==
    [js EXCEPT ![job_id] =
        [@ EXCEPT !.status = "failed", !.progress = 100,
                  !.finished_at = TRUE, !.message = message, !.message_len = len]]

\* _mark_job_failed; message is the kind of the exception caught and len the
\* length of the text handed over.
mark_job_failed(js, job_id, message, len) ==
    [js EXCEPT ![job_id] =
        [@ EXCEPT !.status = "failed", !.progress = 100,
                  !.finished_at = TRUE, !.message = message,
                  !.message_len = Truncate(len)]]

FailureMessage(exc) ==
    CASE exc = "MirrorError" -> "mirror error"
      [] exc = "SQLAlchemyError" -> "Database failure"
      [] OTHER -> "Unexpected error"

\* len(str(exc)): httpx's error text carries the request URL and may be long;
\* the other texts are short.
ExceptionTextLen(exc) == IF exc = "HTTPError" THEN LongText ELSE ShortText

\* Length of the text handed to _mark_job_failed: str(exc) for a MirrorError,
\* "Database failure: " or "Unexpected error: " (18 characters) and str(exc)
\* otherwise.
FailureLength(exc) ==
    IF exc = "MirrorError" THEN ExceptionTextLen(exc) ELSE 18 + ExceptionTextLen(exc)

\* The except/else arms of the loop body.
W_Mark ==
    /\ up
    /\ worker.pc = "mark"
    /\ jobs' = IF worker.exc = None
               THEN mark_job_completed(jobs, worker.job_id, worker.image_id)
               ELSE mark_job_failed(jobs, worker.job_id, FailureMessage(worker.exc),
                                    FailureLength(worker.exc))
    /\ worker' = [IdleWorker EXCEPT !.pc = "select"]
    /\ UNCHANGED <<procVars, resumed, metaFlushed, streams, images, artifacts, disk, tree,
                   handlerVars, workerTask, workerLock>>

\* ------------------------------------------------------------ mirror engine
\* What upstream answers to the two GETs of a run (the index, then the
\* products file of the product's stream): a failure of one of them, or the
\* items map of the latest version.
UpstreamAnswers ==
    {[kind |-> k, versions |-> NoVersions] :
        k \in {"index_http_error", "no_streams", "product_not_in_index",
               "products_http_error", "no_product_meta", "no_versions"}}
      \cup {[kind |-> "ok", versions |-> OneVersion(m)] : m \in ItemMaps}
DownloadOutcomes ==
    {[ok |-> TRUE, chunks |-> <<b>>] : b \in Bodies} \cup {[ok |-> FALSE, chunks |-> <<>>]}

\* _fetch_json raises httpx's error as it is; the engine's own checks raise
\* MirrorError.
fetch_exception(kind) ==
    IF kind \in {"index_http_error", "products_http_error"} THEN "HTTPError" ELSE "MirrorError"

\* _get_or_create_stream: the Stream row of the product's stream is inserted
\* or updated and flushed in the run's session, not committed.
get_or_create_stream(rows, stream_id) == rows \cup {stream_id}

\* The failures that come after the stream upsert: the products file, the
\* product metadata, the versions.
AfterStreamUpsert == {"products_http_error", "no_product_meta", "no_versions"}

\* Variant: what the session flushed stays in the database.
rollback_flushed(committed, flushed) == flushed

\* The run's session is closed without a commit: what it flushed is rolled
\* back.
rollback(committed, flushed) == committed

\* Variant: the key greatest as a number.
numeric_latest_version(versions) ==
    CHOOSE k \in DOMAIN versions :
        \A o \in DOMAIN versions :
            Len(o) < Len(k) \/ (Len(o) = Len(k) /\ StrLeq(o, k))

\* _latest_version: max(versions.keys()), keys compared as strings.
latest_version(versions) ==
    CHOOSE k \in DOMAIN versions : \A o \in DOMAIN versions : StrLeq(o, k)

\* mirror_product up to the version selected: _fetch_json(index_url),
\* _find_stream_for_product, _get_or_create_stream (flushed, committed with the
\* image), _get_product_payload, _latest_version. Nothing is committed here.
W_Fetch(answer) ==
    /\ up
    /\ worker.pc = "fetch"
    /\ IF answer.kind # "ok"
       THEN /\ worker' = [worker EXCEPT !.pc = "mark", !.exc = fetch_exception(answer.kind)]
            /\ streams' = IF answer.kind \in AfterStreamUpsert
                           THEN rollback(streams, get_or_create_stream(streams, UpstreamStream))
                           ELSE streams
       ELSE IF DOMAIN answer.versions = {}
       THEN /\ worker' = [worker EXCEPT !.pc = "mark", !.exc = "MirrorError"]
            /\ streams' = rollback(streams, get_or_create_stream(streams, UpstreamStream))
       ELSE LET version_key == latest_version(answer.versions)
            IN /\ worker' = [worker EXCEPT !.pc = "evict", !.versions = answer.versions,
                                           !.version_key = version_key,
                                           !.items = answer.versions[version_key]]
               /\ UNCHANGED streams
    /\ UNCHANGED <<procVars, jobs, images, artifacts, resumed, metaFlushed, disk, tree,
                   handlerVars, workerTask, workerLock>>

\* Variant: the predecessor is never found.
existing_image_none(rows, stream_id, product_id) == 0

\* The Image of (stream, product), 0 when there is none.
existing_image(rows, stream_id, product_id) ==
    IF \E im \in rows : im.stream_id = stream_id /\ im.product_id = product_id
    THEN (CHOOSE im \in rows : im.stream_id = stream_id /\ im.product_id = product_id).id
    ELSE 0

\* _remove_existing_image: the files of the predecessor's artifacts are removed
\* and its DELETE is flushed; the commit comes with the new image.
W_Evict ==
    LET old == existing_image(images, UpstreamStream, worker.product_id)
    IN /\ up
       /\ worker.pc = "evict"
       /\ disk' = safe_remove(disk, {a.relative_path : a \in ImageArtifacts(artifacts, old)})
       /\ worker' = [worker EXCEPT !.pc = "create", !.existing = old]
       /\ UNCHANGED <<procVars, dbVars, resumed, metaFlushed, tree, handlerVars, workerTask, workerLock>>

\* Variant: the Image is created as ready.
new_image_ready(id, product_id, version_key) ==
    [id |-> id, stream_id |-> UpstreamStream, product_id |-> product_id,
     image_type |-> "mirrored", status |-> "ready", meta |-> initial_entry,
     build_id |-> version_key]

\* Image(...): the row of a run, in status mirroring, its items still empty.
new_image(id, product_id, version_key) ==
    [id |-> id, stream_id |-> UpstreamStream, product_id |-> product_id,
     image_type |-> "mirrored", status |-> "mirroring", meta |-> initial_entry,
     build_id |-> version_key]

\* Image(status=mirroring) added, flushed and committed, together with the
\* stream upsert and the predecessor's delete.
W_CreateImage ==
    LET kept == {im \in images : im.id # worker.existing}
        id == NextImageId(kept)
        row == new_image(id, worker.product_id, worker.version_key)
    IN /\ up
       /\ worker.pc = "create"
       /\ streams' = streams \cup {UpstreamStream}
       /\ images' = kept \cup {row}
       /\ artifacts' = {a \in artifacts : a.image_id # worker.existing}
       /\ jobs' = NullifyJobs(jobs, worker.existing)
       /\ worker' = [worker EXCEPT !.pc = IF worker.items = <<>> THEN "promote" ELSE "download",
                                   !.image_id = id, !.entry = initial_entry, !.idx = 1]
       /\ UNCHANGED <<procVars, resumed, metaFlushed, disk, tree, handlerVars, workerTask, workerLock>>

\* download_with_hash: the bytes written, their count and their digest.
\* Variant: the hasher keeps the last chunk only.
hasher_replace(h, chunk) == chunk

\* hasher.update(chunk) and hasher.hexdigest(): the hasher holds the bytes fed
\* to it so far.
hasher_update(h, chunk) == h \o chunk
hexdigest(h) == Sha256(h)

\* The loop over the chunks: handle.write(chunk); size += len(chunk);
\* hasher.update(chunk).
RECURSIVE copy_chunks(_, _, _, _)
copy_chunks(chunks, written, size, hasher) ==
    IF chunks = <<>>
    THEN [written |-> written, size |-> size, sha256 |-> hexdigest(hasher)]
    ELSE copy_chunks(Tail(chunks), written \o chunks[1], size + Len(chunks[1]),
                     hasher_update(hasher, chunks[1]))

\* download_with_hash: the destination is opened for writing (emptied), the
\* chunks are copied; the size and the digest are returned, the file holds
\* what was written.
download_with_hash(chunks) == copy_chunks(chunks, <<>>, 0, <<>>)

\* save_upload: the same loop over the chunks read from the upload.
save_upload(chunks) == copy_chunks(chunks, <<>>, 0, <<>>)

\* local_meta: the upstream item patched with the observed size and sha256.
local_meta(item, got) == [item EXCEPT !.size = got.size, !.sha256 = got.sha256]

artifact_row(item, got) ==
    [image_id |-> 0, name |-> item.name, ftype |-> item.ftype,
     relative_path |-> item.path, size |-> got.size, sha256 |-> got.sha256]

\* Variant: the loop takes the items from the end of the map.
next_item_reversed(items, idx) == items[Len(items) + 1 - idx]

\* for item_name, item_meta in items.items(): the idx-th item in the insertion
\* order of the map.
next_item(items, idx) == items[idx]

\* One pass of the items loop: the download succeeds with some body, or fails
\* and the destination is removed.
W_Download(outcome) ==
    LET item == next_item(worker.items, worker.idx)
        last == worker.idx = Len(worker.items)
    IN /\ up
       /\ worker.pc = "download"
       /\ IF outcome.ok
          THEN LET got == download_with_hash(outcome.chunks)
               IN /\ disk' = [disk EXCEPT ![item.path] = got.written]
                  /\ worker' = [worker EXCEPT
                        !.chunks = outcome.chunks,
                        !.entry.items = Append(@, local_meta(item, got)),
                        !.artifact_rows = Append(@, artifact_row(item, got)),
                        !.idx = @ + 1,
                        !.pc = IF last THEN "promote" ELSE "download"]
          ELSE /\ disk' = safe_remove(disk, {item.path})
               /\ worker' = [worker EXCEPT
                        !.chunks = <<>>,
                        !.entry.status_detail = "Failed to download",
                        !.exc = "MirrorError",
                        !.pc = "fail_commit"]
       /\ UNCHANGED <<procVars, dbVars, resumed, metaFlushed, tree, handlerVars, workerTask, workerLock>>

ImageExists(id) == \E im \in images : im.id = id

\* image.status = ...; image.meta = entry_copy; commit. entry_copy is the dict
\* the attribute already holds, mutated in place: the UPDATE carries the meta
\* column only when the ORM takes the re-assignment for a change.
UpdateImage(id, status, meta) ==
    {IF im.id = id
     THEN [im EXCEPT !.status = status, !.meta = IF metaFlushed THEN meta ELSE @]
     ELSE im : im \in images}

\* The image is promoted: status ready, meta, the artifact rows, commit. When
\* the row is gone the UPDATE matches nothing, the handler's own commit fails
\* too, and the database error leaves the engine.
W_Promote ==
    /\ up
    /\ worker.pc = "promote"
    /\ IF ImageExists(worker.image_id)
       THEN /\ images' = UpdateImage(worker.image_id, "ready",
                            [worker.entry EXCEPT !.status_detail = None])
            /\ artifacts' = artifacts \cup
                 {[worker.artifact_rows[k] EXCEPT !.image_id = worker.image_id] :
                      k \in DOMAIN worker.artifact_rows}
            /\ worker' = [worker EXCEPT !.pc = "rebuild_read",
                                        !.entry.status_detail = None]
       ELSE /\ worker' = [worker EXCEPT !.pc = "mark", !.exc = "SQLAlchemyError"]
            /\ UNCHANGED <<images, artifacts>>
    /\ UNCHANGED <<procVars, jobs, streams, resumed, metaFlushed, disk, tree, handlerVars,
                   workerTask, workerLock>>

\* The except arm: meta.error, status error, commit; no artifact row is added.
W_FailCommit ==
    /\ up
    /\ worker.pc = "fail_commit"
    /\ IF ImageExists(worker.image_id)
       THEN /\ images' = UpdateImage(worker.image_id, "error",
                            [worker.entry EXCEPT !.status_detail = None, !.error = "error"])
            /\ worker' = [worker EXCEPT !.pc = "rebuild_read",
                                        !.entry.status_detail = None,
                                        !.entry.error = "error"]
       ELSE /\ worker' = [worker EXCEPT !.pc = "mark", !.exc = "SQLAlchemyError"]
            /\ UNCHANGED images
    /\ UNCHANGED <<procVars, jobs, streams, artifacts, resumed, metaFlushed, disk, tree, handlerVars,
                   workerTask, workerLock>>

\* What the run's session loads: the committed rows, except that the run's own
\* Image, which the session already holds, keeps the meta it has in memory
\* (entry_copy).
SessionSnapshot ==
    [Snapshot EXCEPT !.images =
        {IF /\ im.id = worker.image_id
            /\ im.stream_id = UpstreamStream
            /\ im.product_id = worker.product_id
         THEN [im EXCEPT !.meta = worker.entry]
         ELSE im : im \in images}]

\* rebuild_simplestream_files: the select that loads streams, images, artifacts.
W_RebuildRead ==
    /\ up
    /\ worker.pc = "rebuild_read"
    /\ worker' = [worker EXCEPT !.pc = "rebuild_write", !.snapshot = SessionSnapshot]
    /\ UNCHANGED <<procVars, dbVars, resumed, metaFlushed, disk, tree, handlerVars,
                   workerTask, workerLock>>

\* rebuild_simplestream_files: the files are written; the engine returns the
\* image id or re-raises.
W_RebuildWrite ==
    /\ up
    /\ worker.pc = "rebuild_write"
    /\ tree' = rebuild_simplestream_files(worker.snapshot, tree)
    /\ worker' = [worker EXCEPT !.pc = "mark", !.snapshot = NoSnapshot]
    /\ UNCHANGED <<procVars, dbVars, resumed, metaFlushed, disk, handlerVars, workerTask, workerLock>>

\* -------------------------------------------------- deletion, custom images
CustomStream == "com.local.maas:custom:download"

\* delete_image: the image and its artifacts are loaded, the files removed,
\* the row deleted and the delete committed. At most budget deletions and
\* uploads are ever started.
D_DeleteWithin(image_id, budget) ==
    /\ up
    /\ deleter.pc = "idle"
    /\ admin < budget
    /\ ImageExists(image_id)
    /\ admin' = admin + 1
    /\ disk' = safe_remove(disk, {a.relative_path : a \in ImageArtifacts(artifacts, image_id)})
    /\ DeleteImageRows(image_id)
    /\ jobs' = NullifyJobs(jobs, image_id)
    /\ deleter' = [deleter EXCEPT !.pc = "rebuild_read"]
    /\ UNCHANGED <<up, crashes, streams, resumed, metaFlushed, tree, requests, response, uploader,
                   worker, workerTask, workerLock>>

D_Delete(image_id) == D_DeleteWithin(image_id, MaxAdmin)

D_RebuildRead ==
    /\ up
    /\ deleter.pc = "rebuild_read"
    /\ deleter' = [deleter EXCEPT !.pc = "rebuild_write", !.snapshot = Snapshot]
    /\ UNCHANGED <<procVars, dbVars, resumed, metaFlushed, disk, tree, requests, response, uploader,
                   worker, workerTask, workerLock>>

D_RebuildWrite ==
    /\ up
    /\ deleter.pc = "rebuild_write"
    /\ tree' = rebuild_simplestream_files(deleter.snapshot, tree)
    /\ deleter' = IdleDeleter
    /\ UNCHANGED <<procVars, dbVars, resumed, metaFlushed, disk, requests, response, uploader,
                   worker, workerTask, workerLock>>

CustomBuild == <<0>>     \* build_id = _timestamp()

\* create_custom_image: the custom stream is ensured, an image of the same
\* product is removed with its files, the uploads are saved with save_upload,
\* the Image is added as ready with its artifacts, and all is committed.
U_CreateWithin(uploads, body, budget) ==
    LET old == existing_image(images, CustomStream, CustomProduct)
        kept == {im \in images : im.id # old}
        id == NextImageId(kept)
        got == save_upload(<<body>>)
        items == [k \in DOMAIN uploads |->
                    [name |-> uploads[k].name, path |-> uploads[k].path,
                     ftype |-> uploads[k].name, size |-> got.size, sha256 |-> got.sha256]]
        row == [id |-> id, stream_id |-> CustomStream, product_id |-> CustomProduct,
                image_type |-> "custom", status |-> "ready",
                meta |-> [items |-> items, status_detail |-> None, error |-> None],
                build_id |-> CustomBuild]
    IN /\ up
       /\ uploader.pc = "idle"
       /\ admin < budget
       /\ admin' = admin + 1
       /\ streams' = streams \cup {CustomStream}
       /\ disk' = [p \in Paths |->
                     IF \E k \in DOMAIN uploads : uploads[k].path = p THEN got.written
                     ELSE safe_remove(disk, {a.relative_path : a \in ImageArtifacts(artifacts, old)})[p]]
       /\ images' = kept \cup {row}
       /\ artifacts' = {a \in artifacts : a.image_id # old} \cup
            {[artifact_row(items[k], got) EXCEPT !.image_id = id] : k \in DOMAIN items}
       /\ jobs' = NullifyJobs(jobs, old)
       /\ uploader' = [uploader EXCEPT !.pc = "rebuild_read", !.image_id = id]
       /\ UNCHANGED <<up, crashes, resumed, metaFlushed, tree, requests, response, deleter,
                      worker, workerTask, workerLock>>

U_Create(uploads, body) == U_CreateWithin(uploads, body, MaxAdmin)

U_RebuildRead ==
    /\ up
    /\ uploader.pc = "rebuild_read"
    /\ uploader' = [uploader EXCEPT !.pc = "rebuild_write", !.snapshot = Snapshot]
    /\ UNCHANGED <<procVars, dbVars, resumed, metaFlushed, disk, tree, requests, response, deleter,
                   worker, workerTask, workerLock>>

U_RebuildWrite ==
    /\ up
    /\ uploader.pc = "rebuild_write"
    /\ tree' = rebuild_simplestream_files(uploader.snapshot, tree)
    /\ uploader' = IdleUploader
    /\ UNCHANGED <<procVars, dbVars, resumed, metaFlushed, disk, requests, response, deleter,
                   worker, workerTask, workerLock>>

\* ------------------------------------------------------- crash and startup
\* The process is killed: every coroutine and every uncommitted transaction
\* is gone; the database, the artifact files and the published tree stay.
Crash ==
    /\ up
    /\ crashes < MaxCrashes
    /\ up' = FALSE
    /\ crashes' = crashes + 1
    /\ requests' = [r \in Requests |-> IdleRequest]
    /\ worker' = IdleWorker
    /\ workerTask' = "none"
    /\ workerLock' = FALSE
    /\ deleter' = IdleDeleter
    /\ uploader' = IdleUploader
    /\ UNCHANGED <<admin, dbVars, resumed, metaFlushed, disk, tree, response>>

\* len("Resumed after service restart")
ResumedMessageLen == 29

\* Variant: the requeued job keeps its progress and started_at.
resume_pending_jobs_status_only(js) ==
    [j \in DOMAIN js |->
        IF js[j].status = "running"
        THEN [js[j] EXCEPT !.status = "queued",
                           !.message = "Resumed after service restart",
                           !.message_len = ResumedMessageLen]
        ELSE js[j]]

\* Variant: failed jobs are requeued as well.
resume_unfinished_jobs(js) ==
    [j \in DOMAIN js |->
        IF js[j].status \in {"running", "failed"}
        THEN [js[j] EXCEPT !.status = "queued",
                           !.message = "Resumed after service restart",
                           !.message_len = ResumedMessageLen,
                           !.started_at = FALSE, !.finished_at = FALSE,
                           !.progress = 0]
        ELSE js[j]]

\* resume_pending_jobs: every running job back to queued.
resume_pending_jobs(js) ==
    [j \in DOMAIN js |->
        IF js[j].status = "running"
        THEN [js[j] EXCEPT !.status = "queued",
                           !.message = "Resumed after service restart",
                           !.message_len = ResumedMessageLen,
                           !.started_at = FALSE, !.finished_at = FALSE,
                           !.progress = 0]
        ELSE js[j]]

\* startup_event: init_db, resume_pending_jobs, trigger_job_runner; requests
\* are served once it has returned.
Startup ==
    /\ ~up
    /\ up' = TRUE
    /\ jobs' = resume_pending_jobs(jobs)
    /\ resumed' = resumed \cup {j \in DOMAIN jobs : jobs[j].status = "running"}
    /\ trigger_job_runner
    /\ UNCHANGED <<crashes, admin, metaFlushed, streams, images, artifacts, disk,
                   tree, handlerVars, workerLock>>

\* ------------------------------------------------------------ specification
\* The steps of one POST /mirror handler.
IntakeOf(r) ==
    \/ \E pids \in ProductLists : ReqStart(r, pids)
    \/ ReqCheck(r)
    \/ ReqFinish(r)
    \/ ReqTrigger(r)

Intake == \E r \in Requests : IntakeOf(r)

WorkerStep ==
    \/ W_Acquire
    \/ W_Select
    \/ W_Exit
    \/ \E answer \in UpstreamAnswers : W_Fetch(answer)
    \/ W_Evict
    \/ W_CreateImage
    \/ \E outcome \in DownloadOutcomes : W_Download(outcome)
    \/ W_Promote
    \/ W_FailCommit
    \/ W_RebuildRead
    \/ W_RebuildWrite
    \/ W_Mark

Admin ==
    \/ \E id \in {im.id : im \in images} : D_Delete(id)
    \/ D_RebuildRead
    \/ D_RebuildWrite
    \/ \E uploads \in UploadSets, body \in Bodies : U_Create(uploads, body)
    \/ U_RebuildRead
    \/ U_RebuildWrite

\* The whole service.
Next == Intake \/ WorkerStep \/ Admin \/ Crash \/ Startup

Spec == Init /\ [][Next]_vars

\* Concurrent mirror requests and the worker; no kill, no deletion, no upload.
MirrorNext == Intake \/ WorkerStep \/ Startup

MirrorSpec == Init /\ [][MirrorNext]_vars

\* Mirror requests one at a time, the worker, process kills and restarts.
CrashNext == IntakeOf(1) \/ WorkerStep \/ Crash \/ Startup

CrashSpec == Init /\ [][CrashNext]_vars

\* One handler serving requests that name a single product.
IntakeOne ==
    \/ \E p \in Products : ReqStart(1, <<p>>)
    \/ ReqCheck(1)
    \/ ReqFinish(1)
    \/ ReqTrigger(1)

\* Single-product mirror requests one at a time, the worker, image deletions
\* and uploads.
CatalogNext == IntakeOne \/ WorkerStep \/ Admin \/ Startup

CatalogSpec == Init /\ [][CatalogNext]_vars

\* The worker with every download answering the declared bytes or failing.
DeclaredWorkerStep ==
    \/ W_Acquire
    \/ W_Select
    \/ W_Exit
    \/ \E answer \in UpstreamAnswers : W_Fetch(answer)
    \/ W_Evict
    \/ W_CreateImage
    \/ W_Download([ok |-> TRUE, chunks |-> <<DeclaredBody>>])
    \/ W_Download([ok |-> FALSE, chunks |-> <<>>])
    \/ W_Promote
    \/ W_FailCommit
    \/ W_RebuildRead
    \/ W_RebuildWrite
    \/ W_Mark

\* Uploads of a custom image with the declared bytes.
Upload ==
    \/ \E uploads \in UploadSets : U_Create(uploads, DeclaredBody)
    \/ U_RebuildRead
    \/ U_RebuildWrite

\* Mirror runs, supersedes, custom uploads, process kills and restarts.
SupersedeNext == IntakeOne \/ DeclaredWorkerStep \/ Upload \/ Crash \/ Startup

SupersedeSpec == Init /\ [][SupersedeNext]_vars

\* The worker against an upstream that publishes several versions of a
\* product; the downloads answer the declared bytes or fail.
VersionWorkerStep ==
    \/ W_Acquire
    \/ W_Select
    \/ W_Exit
    \/ \E v \in VersionMaps : W_Fetch([kind |-> "ok", versions |-> v])
    \/ W_Fetch([kind |-> "no_versions", versions |-> NoVersions])
    \/ W_Evict
    \/ W_CreateImage
    \/ W_Download([ok |-> TRUE, chunks |-> <<DeclaredBody>>])
    \/ W_Download([ok |-> FALSE, chunks |-> <<>>])
    \/ W_Promote
    \/ W_FailCommit
    \/ W_RebuildRead
    \/ W_RebuildWrite
    \/ W_Mark

\* Repeated mirror requests while upstream publishes new versions.
VersionNext == IntakeOne \/ VersionWorkerStep \/ Startup

VersionSpec == Init /\ [][VersionNext]_vars

\* ---- response bodies that arrive in chunks
\* What response.aiter_bytes() may yield: chunks of a few bytes, an empty chunk
\* included, in any number up to MaxChunks.
Chunks == {<<>>, <<1>>, <<2>>, <<1, 2>>}
ChunkLists == UNION {[1..n -> Chunks] : n \in 0..MaxChunks}

\* The worker against an upstream whose product has one item; each download
\* delivers some sequence of chunks or fails.
ChunkWorkerStep ==
    \/ W_Acquire
    \/ W_Select
    \/ W_Exit
    \/ W_Fetch([kind |-> "ok", versions |-> OneVersion(<<UpstreamItem("a", "f1")>>)])
    \/ W_Evict
    \/ W_CreateImage
    \/ \E chunks \in ChunkLists : W_Download([ok |-> TRUE, chunks |-> chunks])
    \/ W_Download([ok |-> FALSE, chunks |-> <<>>])
    \/ W_Promote
    \/ W_FailCommit
    \/ W_RebuildRead
    \/ W_RebuildWrite
    \/ W_Mark

ChunkNext == IntakeOne \/ ChunkWorkerStep \/ Startup

ChunkSpec == Init /\ [][ChunkNext]_vars

\* ---- the publisher alone, on a database that does not change
\* Rows an upstream product may have: none, or an Image in mirroring, ready or
\* error, as the engine leaves them.
ReadyMeta(flushed) ==
    IF flushed
    THEN [initial_entry EXCEPT
            !.items = <<local_meta(UpstreamItem("a", "f1"), download_with_hash(<<DeclaredBody>>))>>,
            !.status_detail = None]
    ELSE initial_entry

UpstreamRows(p, id, flushed) ==
    {{}} \cup
    {{[id |-> id, stream_id |-> UpstreamStream, product_id |-> p, image_type |-> "mirrored",
       status |-> st, build_id |-> DeclaredVersion,
       meta |-> IF st = "ready" THEN ReadyMeta(flushed) ELSE initial_entry]} :
        st \in {"mirroring", "ready", "error"}}

CustomItem ==
    [name |-> "boot-kernel", path |-> "k1", ftype |-> "boot-kernel",
     size |-> Len(DeclaredBody), sha256 |-> Sha256(DeclaredBody)]

CustomRows(id) ==
    {{}, {[id |-> id, stream_id |-> CustomStream, product_id |-> CustomProduct,
           image_type |-> "custom", status |-> "ready", build_id |-> CustomBuild,
           meta |-> [items |-> <<CustomItem>>, status_detail |-> None, error |-> None]]}}

\* File contents an Artifact row may record: the declared bytes the meta
\* speaks of, an empty file, a longer one.
RowBodies == {<<>>, DeclaredBody, <<1, 1>>}

\* The Artifact rows of the ready images, recording a file of the given bytes.
ArtifactsFor(imgs, body) ==
    {[artifact_row(IF im.image_type = "custom" THEN CustomItem ELSE UpstreamItem("a", "f1"),
                   download_with_hash(<<body>>)) EXCEPT !.image_id = im.id] :
        im \in {x \in imgs : x.status = "ready"}}

PublishInit ==
    /\ up = TRUE
    /\ crashes = 0
    /\ admin = 0
    /\ jobs = <<>>
    /\ resumed = {}
    /\ metaFlushed \in BOOLEAN
    /\ \E ids \in {<<1, 2>>, <<2, 1>>} :
          \E a \in UpstreamRows("p1", ids[1], metaFlushed),
             b \in UpstreamRows("p2", ids[2], metaFlushed),
             c \in CustomRows(3) :
              /\ images = a \cup b \cup c
              /\ \E body \in RowBodies : artifacts = ArtifactsFor(a \cup b \cup c, body)
              /\ \E X \in SUBSET {UpstreamStream, CustomStream} :
                    streams = X \cup {im.stream_id : im \in a \cup b \cup c}
    /\ disk = [p \in Paths |-> NoFile]
    /\ tree = EmptyTree
    /\ requests = [r \in Requests |-> IdleRequest]
    /\ response = NoResponse
    /\ worker = IdleWorker
    /\ workerTask = "none"
    /\ workerLock = FALSE
    /\ deleter = IdleDeleter
    /\ uploader = IdleUploader

\* The load orders the relationship may give, one per stream that has images.
Loads(snap) ==
    LET S == {s \in snap.streams : \E im \in snap.images : im.stream_id = s}
        imgs(s) == {im \in snap.images : im.stream_id = s}
    IN {l \in [S -> UNION {LoadOrders(imgs(s)) : s \in S}] :
            \A s \in S : l[s] \in LoadOrders(imgs(s))}

\* One run of rebuild(): the snapshot is loaded in some order and written.
Publish ==
    /\ up
    /\ \E load \in Loads(Snapshot) : tree' = rebuild_as_loaded(load, Snapshot, tree)
    /\ UNCHANGED <<procVars, dbVars, resumed, metaFlushed, disk, handlerVars, worker,
                   workerTask, workerLock>>

PublishSpec == PublishInit /\ [][Publish]_vars

\* ---- a deletion and an upload beside a mirror run
\* Operations an operator may start here: one more than elsewhere, so that a
\* deletion can be followed by an upload.
ReuseBudget == MaxAdmin + 1

ReuseAdmin ==
    \/ \E id \in {im.id : im \in images} : D_DeleteWithin(id, ReuseBudget)
    \/ D_RebuildRead
    \/ D_RebuildWrite
    \/ \E uploads \in UploadSets : U_CreateWithin(uploads, DeclaredBody, ReuseBudget)
    \/ U_RebuildRead
    \/ U_RebuildWrite

\* The worker with one-item products and downloads that answer the declared
\* bytes or fail.
ReuseWorkerStep ==
    \/ W_Acquire
    \/ W_Select
    \/ W_Exit
    \/ W_Fetch([kind |-> "ok", versions |-> OneVersion(<<UpstreamItem("a", "f1")>>)])
    \/ W_Evict
    \/ W_CreateImage
    \/ W_Download([ok |-> TRUE, chunks |-> <<DeclaredBody>>])
    \/ W_Download([ok |-> FALSE, chunks |-> <<>>])
    \/ W_Promote
    \/ W_FailCommit
    \/ W_RebuildRead
    \/ W_RebuildWrite
    \/ W_Mark

ReuseNext == IntakeOne \/ ReuseWorkerStep \/ ReuseAdmin \/ Startup

ReuseSpec == Init /\ [][ReuseNext]_vars

\* The worker against a healthy upstream: both GETs of a run answer and every
\* download succeeds (with whatever body upstream serves).
HealthyWorkerStep ==
    \/ W_Acquire
    \/ W_Select
    \/ W_Exit
    \/ \E m \in ItemMaps : W_Fetch([kind |-> "ok", versions |-> OneVersion(m)])
    \/ W_Evict
    \/ W_CreateImage
    \/ \E b \in Bodies : W_Download([ok |-> TRUE, chunks |-> <<b>>])
    \/ W_Promote
    \/ W_RebuildRead
    \/ W_RebuildWrite
    \/ W_Mark

\* Kill and restart with a healthy upstream. The worker task is scheduled by the
\* event loop whenever it can run, and a killed process is started again.
RestartNext == IntakeOne \/ HealthyWorkerStep \/ Crash \/ Startup

RestartSpec ==
    /\ Init
    /\ [][RestartNext]_vars
    /\ WF_vars(HealthyWorkerStep)
    /\ WF_vars(Startup)

\* The drain loop with every await of the worker returning: the event loop
\* runs the worker task whenever it can take a step, whatever upstream answers,
\* and the process is started.
DrainSpec ==
    /\ Init
    /\ [][MirrorNext]_vars
    /\ WF_vars(WorkerStep)
    /\ WF_vars(Startup)

\* ------------------------------------------------------------------ claims
Quiescent ==
    /\ up
    /\ \A r \in Requests : requests[r].pc = "idle"
    /\ worker.pc \in {"idle", "start", "select", "closing"}
    /\ deleter.pc = "idle"
    /\ uploader.pc = "idle"

ActiveJobsOf(product_id) ==
    {j \in JobIds : jobs[j].product_id = product_id /\ jobs[j].status \in ActiveStatuses}

\* C1: in every committed database state at most one MirrorJob per product_id
\* is queued or running, under any interleaving of concurrent mirror requests
\* with each other and with the worker.
C1_AtMostOneActiveJobPerProduct ==
    \A p \in Products : Cardinality(ActiveJobsOf(p)) <= 1

\* C2: a MirrorJob committed as queued is run without any further mirror
\* request: when no handler is in flight and the worker task is not running,
\* no queued job is left behind.
C2_NoQueuedJobLeftBehind ==
    (up /\ (\A r \in Requests : requests[r].pc = "idle") /\ workerTask # "running")
        => \A j \in JobIds : jobs[j].status # "queued"

\* An Artifact row's file is on disk with the recorded size and sha256.
FileMatches(a) ==
    /\ disk[a.relative_path] # NoFile
    /\ Len(disk[a.relative_path]) = a.size
    /\ Sha256(disk[a.relative_path]) = a.sha256

\* C3: between runs and requests, every Artifact row of a ready Image has its
\* relative_path on disk with the recorded size and sha256, also when items of
\* different products name the same relative path.
C3_ReadyArtifactsOnDisk ==
    Quiescent =>
        \A im \in images : im.status = "ready" =>
            \A a \in ImageArtifacts(artifacts, im.id) : FileMatches(a)

\* C4: every Image in status ready has at least one Artifact row, whatever the
\* items map of the selected version contains.
C4_ReadyImageHasArtifact ==
    \A im \in images : im.status = "ready" => ImageArtifacts(artifacts, im.id) # {}

\* The run's Image is committed as ready by this step.
PromotedNow ==
    /\ worker.pc = "promote"
    /\ \E im \in images' : im.id = worker.image_id /\ im.status = "ready"

\* C5: the engine promotes a mirrored Image to ready only if, for every item,
\* the size and sha256 observed during the download equal the size and sha256
\* the upstream products file declares for the item.
C5_PromotedOnlyIfVerified ==
    [][PromotedNow =>
          \A k \in DOMAIN worker.items :
              /\ worker.artifact_rows[k].size = worker.items[k].size
              /\ worker.artifact_rows[k].sha256 = worker.items[k].sha256]_vars

\* The worker's rebuild writes the tree in this step.
WorkerRepublished == worker.pc = "rebuild_write" /\ worker'.pc = "mark"

\* C6: a products file the worker's rebuild has written contains no product
\* whose Image is not ready in the database state the rebuild read.
C6_PublishedOnlyReady ==
    [][WorkerRepublished =>
          \A im \in worker.snapshot.images :
              (/\ im.stream_id \in DOMAIN tree'.files
               /\ im.product_id \in DOMAIN tree'.files[im.stream_id])
                  => im.status = "ready"]_vars

\* A published item agrees with the Artifact row of the same name.
ItemAgrees(item, rows) ==
    \E a \in rows :
        /\ a.name = item.name
        /\ a.relative_path = item.path
        /\ a.size = item.size
        /\ a.sha256 = item.sha256

\* Tree t lists every Image that is ready in snap, with items that agree with
\* the Image's Artifact rows.
ReadyPublished(snap, t) ==
    \A im \in snap.images : im.status = "ready" =>
        /\ im.stream_id \in DOMAIN t.files
        /\ im.product_id \in DOMAIN t.files[im.stream_id]
        /\ LET entry == t.files[im.stream_id][im.product_id]
           IN \A k \in DOMAIN entry.items :
                 ItemAgrees(entry.items[k], ImageArtifacts(snap.artifacts, im.id))

\* C7: when a rebuild completes (the worker's, a deletion's or an upload's), for
\* every Image that is ready in the database state the rebuild read, the
\* products file of its Stream contains its product_id, and every item published
\* for it has the path, size and sha256 of the Image's Artifact row of that name.
C7_RebuildPublishesReadyImages ==
    [][/\ (worker.pc = "rebuild_write" /\ worker'.pc = "mark")
            => ReadyPublished(worker.snapshot, tree')
       /\ (deleter.pc = "rebuild_write" /\ deleter'.pc = "idle")
            => ReadyPublished(deleter.snapshot, tree')
       /\ (uploader.pc = "rebuild_write" /\ uploader'.pc = "idle")
            => ReadyPublished(uploader.snapshot, tree')]_vars

\* Image im is listed in the tree with at least one item, all of them agreeing.
ListedWithItems(im) ==
    /\ im.status = "ready"
    /\ im.stream_id \in DOMAIN tree.files
    /\ im.product_id \in DOMAIN tree.files[im.stream_id]
    /\ tree.files[im.stream_id][im.product_id].items # <<>>
    /\ \A k \in DOMAIN tree.files[im.stream_id][im.product_id].items :
          ItemAgrees(tree.files[im.stream_id][im.product_id].items[k],
                     ImageArtifacts(artifacts, im.id))

C7_Witness ==
    /\ worker.pc = "mark"
    /\ worker.exc = None
    /\ uploader.pc = "idle"
    /\ \E im \in images : im.image_type = "mirrored" /\ ListedWithItems(im)
    /\ \E im \in images : im.image_type = "custom" /\ ListedWithItems(im)

\* C8: the startup recovery step leaves no MirrorJob running; every job that
\* was running is queued with progress 0 and neither started_at nor
\* finished_at; every other job is left as it was.
C8_RecoveryRequeuesRunningJobs ==
    [][(~up /\ up') =>
          /\ DOMAIN jobs' = DOMAIN jobs
          /\ \A j \in DOMAIN jobs :
                /\ jobs'[j].status # "running"
                /\ IF jobs[j].status = "running"
                   THEN /\ jobs'[j].status = "queued"
                        /\ jobs'[j].progress = 0
                        /\ jobs'[j].started_at = FALSE
                        /\ jobs'[j].finished_at = FALSE
                   ELSE jobs'[j] = jobs[j]]_vars

C8_Witness ==
    /\ up
    /\ worker.pc = "start"
    /\ \E j \in resumed : jobs[j].status = "queued" /\ jobs[j].progress = 0
    /\ \E j \in JobIds : jobs[j].status \in TerminalStatuses

\* C9: when a job requeued by recovery reaches completed or failed, no Image
\* of its product is in mirroring.
C9_StaleMirroringSuperseded ==
    [][\A j \in resumed :
          (/\ j \in DOMAIN jobs
           /\ jobs[j].status = "running"
           /\ jobs'[j].status \in TerminalStatuses)
              => ~ \E im \in images' :
                      im.product_id = jobs[j].product_id /\ im.status = "mirroring"]_vars

\* The final state of an uninterrupted run for job j: one Image of the product,
\* ready, referenced by the job, its files on disk, listed in the tree.
MirroredFinalState(js, j) ==
    LET mine == {im \in images : im.product_id = js[j].product_id}
    IN /\ Cardinality(mine) = 1
       /\ \A im \in mine :
             /\ im.status = "ready"
             /\ im.id = js[j].image_id
             /\ \A a \in ImageArtifacts(artifacts, im.id) : FileMatches(a)
             /\ im.stream_id \in DOMAIN tree.index
             /\ \E k \in DOMAIN tree.index[im.stream_id] :
                   tree.index[im.stream_id][k] = im.product_id
             /\ im.stream_id \in DOMAIN tree.files
             /\ im.product_id \in DOMAIN tree.files[im.stream_id]

StatusOf(j) == IF j \in JobIds THEN jobs[j].status ELSE None

\* C10: with a healthy upstream, a job requeued by recovery after a kill is
\* eventually completed, and when it completes there is exactly one Image of its
\* product, ready, with its Artifact files on disk, listed in the published tree.
C10_ResumedJobCompletes ==
    /\ \A j \in 1..MaxJobs :
          (j \in resumed /\ StatusOf(j) = "queued") ~> (StatusOf(j) = "completed")
    /\ [][\A j \in resumed :
             (jobs[j].status = "running" /\ jobs'[j].status \in TerminalStatuses)
                => jobs'[j].status = "completed" /\ MirroredFinalState(jobs', j)]_vars

C10_Witness ==
    \E j \in resumed :
        /\ jobs[j].status = "completed"
        /\ MirroredFinalState(jobs, j)
        /\ ImageArtifacts(artifacts, jobs[j].image_id) # {}

RunningJobs == {j \in JobIds : jobs[j].status = "running"}

\* C11: at most one MirrorJob is running, and while the process is up the
\* running job is the one job the single drain loop is processing, the loop
\* holding the mutex inside the one live worker task; this through every
\* trigger() of intake requests and of startup recovery.
C11_SingleDrainLoop ==
    /\ Cardinality(RunningJobs) <= 1
    /\ up => \A j \in RunningJobs :
                /\ worker.job_id = j
                /\ workerTask = "running"
                /\ workerLock
    /\ workerLock => (workerTask = "running" /\ worker.pc \notin {"idle", "start"})
    /\ worker.pc # "idle" => workerTask = "running"

\* A request was answered while the loop was busy with another job, after a
\* restart had triggered the loop once more.
C11_Witness ==
    /\ up
    /\ crashes > 0
    /\ response.status = 200
    /\ response.enqueued # <<>>
    /\ RunningJobs # {}
    /\ \E j \in JobIds : jobs[j].status = "queued"

\* Job k is moved from queued to running by this step.
Started(k) == jobs[k].status = "queued" /\ jobs'[k].status = "running"

\* C12: whenever the worker moves a job to running, no queued job is older
\* (rows are in created_at order), and every older job is already completed or
\* failed: jobs start in creation order, and a job requeued by recovery starts
\* before any job created after it.
C12_OldestQueuedFirst ==
    [][\A k \in DOMAIN jobs : Started(k) =>
          \A j \in DOMAIN jobs :
              /\ jobs[j].status = "queued" => k <= j
              /\ j < k => jobs[j].status \in TerminalStatuses]_vars

\* A requeued job runs again while a younger job waits.
C12_Witness ==
    \E j \in resumed :
        /\ jobs[j].status = "running"
        /\ \E k \in JobIds : j < k /\ jobs[k].status = "queued"

\* C13: a mirror request in which every product was skipped and none was
\* enqueued is answered with a client error.
C13_AllSkippedIsClientError ==
    (response.enqueued = <<>> /\ response.skipped # <<>>) => response.status = 400

\* The handler of request r has classified one more product in this step.
Classified(r) == requests'[r].i = requests[r].i + 1

\* What the loop of mirror_products owes to product pid of request q.
Classification(q, pid) ==
    IF \E im \in images : im.product_id = pid /\ im.status = "mirroring"
    THEN "already mirroring"
    ELSE IF \/ \E j \in JobIds : jobs[j].product_id = pid /\ jobs[j].status \in {"queued", "running"}
            \/ pid \in Range(q.enqueued)
    THEN "already queued"
    ELSE "enqueue"

\* C14: each product of a mirror request, in order, is skipped as already
\* mirroring if an Image of it is in mirroring, else skipped as already queued
\* if a job of it is queued or running, else enqueued; every product lands in
\* exactly one of enqueued and skipped, and the commit adds exactly one queued
\* job per enqueued product and nothing else.
C14_ClassifyEachProduct ==
    [][\A r \in Requests :
         LET q == requests[r]
             n == requests'[r]
         IN /\ Classified(r) =>
                LET pid == q.product_ids[q.i]
                    c == Classification(q, pid)
                IN /\ jobs' = jobs
                   /\ IF c = "enqueue"
                      THEN n.enqueued = Append(q.enqueued, pid) /\ n.skipped = q.skipped
                      ELSE n.skipped = Append(q.skipped, <<pid, c>>) /\ n.enqueued = q.enqueued
            /\ (q.pc = "check" /\ up) => Len(q.enqueued) + Len(q.skipped) = q.i - 1
            /\ (q.pc \in {"finish", "trigger"} /\ up) =>
                  Len(q.enqueued) + Len(q.skipped) = Len(q.product_ids)
            /\ (q.pc = "finish" /\ n.pc = "trigger") =>
                  /\ Len(jobs') = Len(jobs) + Len(q.enqueued)
                  /\ \A k \in DOMAIN q.enqueued :
                        jobs'[Len(jobs) + k] = NewJob(q.enqueued[k])
                  /\ \A j \in JobIds : jobs'[j] = jobs[j]
            /\ (q.pc = "finish" /\ n.pc = "idle" /\ up') =>
                  /\ jobs' = jobs
                  /\ q.enqueued = <<>>
                  /\ response' = [status |-> IF q.product_ids = <<>> THEN 400 ELSE 200,
                                  enqueued |-> <<>>, skipped |-> q.skipped]
            /\ (q.pc = "trigger" /\ n.pc = "idle" /\ up') =>
                  response' = [status |-> 200, enqueued |-> q.enqueued, skipped |-> q.skipped]
      ]_vars

\* A request for a product whose Image is in mirroring was answered.
C14_Witness ==
    /\ \E p \in Products : response.skipped = <<<<p, "already mirroring">>>>
    /\ response.enqueued = <<>>
    /\ Len(jobs) = 1

QueuedJobsOf(js, p) == {j \in DOMAIN js : js[j].product_id = p /\ js[j].status = "queued"}

Occurrences(seq, p) == Cardinality({k \in DOMAIN seq : seq[k] = p})

\* C15: a product requested again while its job is still queued, by a later
\* request or by a second occurrence in the same product list, is reported as
\* skipped and gets no second job: the product keeps exactly one queued job.
C15_SecondRequestSkipped ==
    [][\A r \in Requests :
         LET q == requests[r]
             n == requests'[r]
         IN /\ Classified(r) =>
                LET pid == q.product_ids[q.i]
                IN (QueuedJobsOf(jobs, pid) # {} \/ pid \in Range(q.enqueued)) =>
                      /\ n.enqueued = q.enqueued
                      /\ Len(n.skipped) = Len(q.skipped) + 1
                      /\ n.skipped[Len(n.skipped)][1] = pid
                      /\ jobs' = jobs
            /\ (q.pc = "finish" /\ n.pc \in {"trigger", "idle"} /\ up') =>
                  \A p \in Range(q.product_ids) :
                      /\ Occurrences(q.enqueued, p) <= 1
                      /\ Occurrences(q.product_ids, p) = 2 =>
                            \E k \in DOMAIN q.skipped : q.skipped[k][1] = p
                      /\ (QueuedJobsOf(jobs, p) # {} \/ p \in Range(q.enqueued)) =>
                            Cardinality(QueuedJobsOf(jobs', p)) = 1
      ]_vars

\* A product listed twice in one request: enqueued once, skipped once, one
\* queued job.
C15_Witness ==
    /\ response.enqueued = <<"p1">>
    /\ response.skipped = <<<<"p1", "already queued">>>>
    /\ Cardinality(QueuedJobsOf(jobs, "p1")) = 1
    /\ Len(jobs) = 1

\* C16: the committed images table holds at most one Image per
\* (stream_id, product_id), hence at most one in mirroring, whatever mirror
\* runs, supersedes, custom uploads and restarts have happened.
C16_OneImagePerStreamProduct ==
    /\ \A a, b \in images :
          (a.stream_id = b.stream_id /\ a.product_id = b.product_id) => a = b
    /\ \A s \in streams, p \in Products \cup {CustomProduct} :
          Cardinality({im \in images : im.stream_id = s /\ im.product_id = p
                                         /\ im.status = "mirroring"}) <= 1

\* After a restart the run has replaced the Image it found, next to a custom
\* image.
C16_Witness ==
    /\ crashes > 0
    /\ worker.existing # 0
    /\ \E im \in images : im.id = worker.image_id /\ im.status = "mirroring"
    /\ \E im \in images : im.image_type = "custom"

\* Job j is marked completed by this step.
Completed(j) == jobs[j].status = "running" /\ jobs'[j].status = "completed"

\* C17: when the engine has returned an image id the job becomes completed
\* with progress 100, finished_at set and image_id the returned id, and at
\* that moment the Image of that id exists, is ready and is the product's.
C17_CompletedJobHasReadyImage ==
    [][\A j \in JobIds : Completed(j) =>
          /\ jobs'[j].progress = 100
          /\ jobs'[j].finished_at
          /\ jobs'[j].image_id = worker.image_id
          /\ \E im \in images' :
                /\ im.id = jobs'[j].image_id
                /\ im.status = "ready"
                /\ im.product_id = jobs[j].product_id]_vars

\* The engine has failed for the job of the worker: the exception is on its
\* way to the except arms of the loop.
EngineFailed == worker.pc = "mark" /\ worker.exc # None

\* C18: whenever the engine fails for a job, with a MirrorError, a database
\* error or any other exception, the worker's next step marks that job failed
\* with a message of at most 2000 characters and returns to the top of the
\* loop with the lock held, where its next step starts the oldest queued job
\* if there is one.
C18_FailedJobDoesNotStopTheDrain ==
    [][/\ (EngineFailed /\ worker' # worker /\ up') =>
              /\ jobs'[worker.job_id].status = "failed"
              /\ jobs'[worker.job_id].message = FailureMessage(worker.exc)
              /\ jobs'[worker.job_id].message_len <= MessageLimit
              /\ jobs'[worker.job_id].finished_at
              /\ worker'.pc = "select"
              /\ workerLock' /\ workerTask' = "running"
       /\ (worker.pc = "select" /\ worker' # worker /\ up'
             /\ \E k \in JobIds : jobs[k].status = "queued") =>
              \E k \in JobIds : Started(k) /\ worker'.job_id = k
       /\ \A j \in JobIds : jobs[j].message_len <= MessageLimit
      ]_vars

\* A job failed on an over-long unexpected error, cut to the limit, and the
\* next job is running.
C18_Witness ==
    \E j, k \in JobIds :
        /\ jobs[j].status = "failed"
        /\ jobs[j].message = "Unexpected error"
        /\ jobs[j].message_len = MessageLimit
        /\ j < k
        /\ jobs[k].status = "running"
        /\ workerLock

\* The run whose download failed after its Image was created ends in this
\* step: the tree is written and the error leaves the engine.
FailedRunEnds ==
    /\ worker.pc = "rebuild_write" /\ worker.exc = "MirrorError" /\ worker.image_id # 0
    /\ worker'.pc = "mark"

\* C19: a run whose item download failed after its Image was created ends
\* with the Image committed in status error with meta.error set, no Artifact
\* row of the run committed, the failing item's destination absent from disk,
\* and the tree republished before the error reaches the worker loop.
C19_FailedDownloadLeavesErrorImage ==
    [][FailedRunEnds =>
          /\ \E im \in images' :
                /\ im.id = worker.image_id
                /\ im.status = "error"
                /\ im.meta.error # None
          /\ ImageArtifacts(artifacts', worker.image_id) = {}
          /\ disk'[worker.items[worker.idx].path] = NoFile
          /\ tree' = rebuild_simplestream_files(worker.snapshot, tree)]_vars

\* The same when the UPDATE of the except arm carries the meta column.
C19_WhenMetaFlushed ==
    [][(FailedRunEnds /\ metaFlushed) =>
          /\ \E im \in images' :
                /\ im.id = worker.image_id
                /\ im.status = "error"
                /\ im.meta.error # None
          /\ ImageArtifacts(artifacts', worker.image_id) = {}
          /\ disk'[worker.items[worker.idx].path] = NoFile
          /\ tree' = rebuild_simplestream_files(worker.snapshot, tree)]_vars

\* A step of a run that fails: the step that raises, or a later one up to the
\* job being marked.
FailingRunStep ==
    /\ worker.job_id # 0
    /\ worker' # worker
    /\ up'
    /\ worker.exc # None \/ worker'.exc # None

\* C20: a failing run of one product leaves alone the Image row, the Artifact
\* rows and the files of every ready Image of another product.
C20_FailingRunLeavesOtherProducts ==
    [][FailingRunStep =>
          \A im \in images :
              (im.status = "ready" /\ im.product_id # worker.product_id) =>
                  /\ im \in images'
                  /\ ImageArtifacts(artifacts', im.id) = ImageArtifacts(artifacts, im.id)
                  /\ \A a \in ImageArtifacts(artifacts, im.id) :
                        disk'[a.relative_path] = disk[a.relative_path]]_vars

ImagesOf(rows, p) == {im \in rows : im.product_id = p}

\* The run commits its new Image in place of the one it found.
Supersedes == worker.pc = "create" /\ worker'.pc # "create" /\ up' /\ worker.existing # 0

\* The run promotes its Image.
Promotes == worker.pc = "promote" /\ worker'.pc = "rebuild_read"

\* C21: when a product that has an Image is mirrored again, the files of the
\* old Image's artifacts are gone when the new Image is committed, the commit
\* removes the old Image and its Artifact rows, and after the promotion the
\* product has exactly one Image, ready, whose build_id is the latest version
\* key.
C21_SupersedeReplacesOldImage ==
    [][/\ Supersedes =>
             /\ \A a \in ImageArtifacts(artifacts, worker.existing) :
                   disk[a.relative_path] = NoFile /\ disk'[a.relative_path] = NoFile
             /\ ImageArtifacts(artifacts', worker.existing) = {}
             /\ Cardinality(ImagesOf(images', worker.product_id)) = 1
             /\ \A im \in ImagesOf(images', worker.product_id) :
                   /\ im.id = worker'.image_id
                   /\ im.status = "mirroring"
                   /\ im.build_id = worker.version_key
       /\ Promotes =>
             /\ Cardinality(ImagesOf(images', worker.product_id)) = 1
             /\ \A im \in ImagesOf(images', worker.product_id) :
                   /\ im.status = "ready"
                   /\ im.build_id = worker.version_key
                   /\ \A o \in DOMAIN worker.versions : StrLeq(o, im.build_id)
      ]_vars

\* A second run has replaced the Image of the first by one of a newer version
\* and promoted it.
C21_Witness ==
    /\ worker.existing # 0
    /\ worker.pc = "rebuild_read"
    /\ worker.exc = None
    /\ Len(jobs) = 2 /\ jobs[1].status = "completed"
    /\ \E im \in images : im.product_id = worker.product_id /\ im.status = "ready"
                           /\ im.build_id = <<1, 1>>
    /\ Cardinality(images) = 1

\* Product p of stream s is listed by tree t: in the index entry of the stream
\* or in its products file.
Listed(t, s, p) ==
    \/ s \in DOMAIN t.index /\ \E k \in DOMAIN t.index[s] : t.index[s][k] = p
    \/ s \in DOMAIN t.files /\ p \in DOMAIN t.files[s]

\* The deletion publishes its tree in this step.
DeletionPublishes == deleter.pc = "rebuild_write" /\ deleter'.pc = "idle" /\ up'

\* C22: a deletion removes the Image, its Artifact rows and its files and then
\* republishes: the tree it publishes lists only products that have an Image
\* in the database it read after the delete, so neither the deleted product
\* nor its items.
C22_DeletedImageNotPublished ==
    [][DeletionPublishes =>
          \A s \in {UpstreamStream, CustomStream}, p \in Products \cup {CustomProduct} :
              Listed(tree', s, p) =>
                  \E im \in deleter.snapshot.images : im.stream_id = s /\ im.product_id = p
      ]_vars

\* A rebuild started from snapshot snap writes the tree in this step.
RebuildCompletes(snap) ==
    \/ worker.pc = "rebuild_write" /\ worker'.pc = "mark" /\ snap = worker.snapshot
    \/ deleter.pc = "rebuild_write" /\ deleter'.pc = "idle" /\ up' /\ snap = deleter.snapshot
    \/ uploader.pc = "rebuild_write" /\ uploader'.pc = "idle" /\ up' /\ snap = uploader.snapshot

StreamsWithImages(snap) == {s \in snap.streams : \E im \in snap.images : im.stream_id = s}

\* C24: when a rebuild completes, index.json has an entry exactly for the
\* streams that have an Image in the database the rebuild read, and no
\* products file is on disk for a stream without Images.
C24_TreeMatchesStreams ==
    [][\A snap \in {worker.snapshot, deleter.snapshot, uploader.snapshot} :
          RebuildCompletes(snap) =>
              /\ DOMAIN tree'.index = StreamsWithImages(snap)
              /\ DOMAIN tree'.files = StreamsWithImages(snap)]_vars

Ascending(seq) == \A i, j \in DOMAIN seq : i < j => Rank(seq[i]) < Rank(seq[j])

\* C23: for a fixed database, rebuild() writes the same index.json and
\* products files whatever order the rows are loaded in and however often it
\* runs, with the products of every stream in ascending product_id order in
\* the index and in the products file.
C23_RebuildIsDeterministic ==
    /\ \A l1, l2 \in Loads(Snapshot) :
          rebuild_as_loaded(l1, Snapshot, tree) = rebuild_as_loaded(l2, Snapshot, tree)
    /\ \A l \in Loads(Snapshot) :
          LET t == rebuild_as_loaded(l, Snapshot, tree)
          IN /\ t = rebuild_simplestream_files(Snapshot, tree)
             /\ tree # EmptyTree => t = tree
             /\ \A s \in DOMAIN t.index :
                   /\ Ascending(t.index[s])
                   /\ Ascending(t.order[s])
                   /\ Range(t.order[s]) = DOMAIN t.files[s]

\* Two images of one stream, the one with the greater product id loaded
\* first, are published in product id order.
C23_Witness ==
    /\ tree # EmptyTree
    /\ UpstreamStream \in DOMAIN tree.index
    /\ tree.index[UpstreamStream] = <<"p1", "p2">>
    /\ tree.order[UpstreamStream] = <<"p1", "p2">>
    /\ \E im \in images : im.product_id = "p2" /\ im.id = 1
    /\ Cardinality(Loads(Snapshot)) > 1

\* No run, deletion or upload is under way, and something was published.
NoRebuildPending ==
    /\ up
    /\ worker.job_id = 0
    /\ deleter.pc = "idle"
    /\ uploader.pc = "idle"
    /\ tree # EmptyTree

\* C25: once the worker's run and the deletions and uploads interleaved with
\* it have finished, index.json lists, stream by stream, the products of the
\* Images the database holds: no rebuild has put back an older snapshot.
C25_TreeReflectsFinalDatabase ==
    NoRebuildPending => tree.index = rebuild_simplestream_files(Snapshot, tree).index

\* C26: whatever an Artifact row records (a size of 0 included), the item the
\* products file publishes under the row's name carries the row's path, size
\* and sha256, also when the Image's meta says otherwise.
C26_ArtifactRowWins ==
    tree # EmptyTree =>
        \A im \in images :
            (im.stream_id \in DOMAIN tree.files /\ im.product_id \in DOMAIN tree.files[im.stream_id]) =>
                LET entry == tree.files[im.stream_id][im.product_id]
                    rows == ImageArtifacts(artifacts, im.id)
                IN \A k \in DOMAIN entry.items :
                      (\E a \in rows : a.name = entry.items[k].name) =>
                          ItemAgrees(entry.items[k], rows)

\* The same for the rows whose size is not 0.
C26_NonEmptyRowWins ==
    tree # EmptyTree =>
        \A im \in images :
            (im.stream_id \in DOMAIN tree.files /\ im.product_id \in DOMAIN tree.files[im.stream_id]) =>
                LET entry == tree.files[im.stream_id][im.product_id]
                    rows == ImageArtifacts(artifacts, im.id)
                IN \A k \in DOMAIN entry.items :
                      (\E a \in rows : a.name = entry.items[k].name /\ a.size # 0) =>
                          ItemAgrees(entry.items[k], rows)

\* Key k is the greatest key of the versions mapping, in string order.
GreatestKey(k, versions) ==
    k \in DOMAIN versions /\ \A o \in DOMAIN versions : StrLeq(o, k)

RunHasImageSteps == {"evict", "create", "download", "promote", "fail_commit"}

\* C27: a run mirrors one version of the product, the one whose key is the
\* greatest in string order: its items are the ones downloaded and recorded,
\* and its key is the build_id of the Image. A product without versions fails
\* the run before anything is evicted or created.
C27_LatestVersionMirrored ==
    [][/\ (worker.pc = "fetch" /\ worker'.pc = "evict") =>
             /\ GreatestKey(worker'.version_key, worker'.versions)
             /\ worker'.items = worker'.versions[worker'.version_key]
       /\ (worker.pc = "fetch" /\ worker'.pc = "mark") =>
             /\ worker'.exc # None
             /\ UNCHANGED <<streams, images, artifacts, disk, tree>>
       /\ worker.pc \in RunHasImageSteps =>
             /\ GreatestKey(worker.version_key, worker.versions)
             /\ worker.items = worker.versions[worker.version_key]
       /\ (worker.pc = "create" /\ worker'.pc # "create" /\ up') =>
             \E im \in images' :
                 /\ im.id = worker'.image_id
                 /\ im.product_id = worker.product_id
                 /\ im.build_id = worker.version_key
       /\ Promotes =>
             LET rows == ImageArtifacts(artifacts', worker.image_id)
                 items == worker.versions[worker.version_key]
             IN /\ {<<a.name, a.relative_path>> : a \in rows}
                      = {<<items[k].name, items[k].path>> : k \in DOMAIN items}
                /\ \A im \in images' : im.id = worker.image_id =>
                      im.build_id = worker.version_key
      ]_vars

\* Upstream offers versions "9" and "10": the Image is built from "9".
C27_Witness ==
    /\ worker.pc = "rebuild_read"
    /\ worker.exc = None
    /\ DOMAIN worker.versions = {<<9>>, <<1, 0>>}
    /\ \E im \in images : im.id = worker.image_id /\ im.status = "ready" /\ im.build_id = <<9>>
    /\ {a.relative_path : a \in ImageArtifacts(artifacts, worker.image_id)} = {"f1"}

\* The concatenation of a sequence of chunks.
RECURSIVE Concat(_)
Concat(chunks) == IF chunks = <<>> THEN <<>> ELSE chunks[1] \o Concat(Tail(chunks))

\* A step of the items loop in which a download succeeded.
Downloaded ==
    /\ worker.pc = "download"
    /\ worker'.pc \in {"download", "promote"}
    /\ Len(worker'.artifact_rows) = Len(worker.artifact_rows) + 1

\* C28: whatever chunks a download delivers, the destination file holds
\* exactly their concatenation, the size recorded for the item (in the meta
\* item and in the Artifact row) is the number of bytes of that file, and the
\* sha256 recorded is the digest of those bytes.
C28_DownloadWritesAndHashesChunks ==
    [][Downloaded =>
        LET item == worker.items[worker.idx]
            row == worker'.artifact_rows[Len(worker'.artifact_rows)]
            meta == worker'.entry.items[Len(worker'.entry.items)]
            file == disk'[item.path]
        IN /\ file = Concat(worker'.chunks)
           /\ row.size = Len(file) /\ meta.size = Len(file)
           /\ row.sha256 = Sha256(file) /\ meta.sha256 = Sha256(file)]_vars

\* A file downloaded in three chunks, the middle one empty, is on disk under
\* the path of the Artifact row that records its size and digest.
C28_Witness ==
    /\ worker.chunks = <<(<<1>>), (<<>>), (<<1, 2>>)>>
    /\ worker.artifact_rows # <<>>
    /\ disk[worker.artifact_rows[1].relative_path] = <<1, 1, 2>>
    /\ worker.artifact_rows[1].size = 3
    /\ worker.artifact_rows[1].sha256 = Sha256(<<1, 1, 2>>)

\* The engine gave up at its fetch stage: fetching or parsing the upstream
\* index or products file failed, or one of the checks on their content did.
FetchStageFailed == worker.pc = "fetch" /\ worker'.pc = "mark"

\* C29: whenever the engine gives up while fetching the upstream index or
\* products file, the exception that reaches the worker is a MirrorError, and
\* the worker's next step stores the mirror error itself as the job's message,
\* never an "Unexpected error" report.
C29_FetchFailureIsMirrorError ==
    [][/\ FetchStageFailed => worker'.exc = "MirrorError"
       /\ (EngineFailed /\ worker.image_id = 0 /\ worker' # worker /\ up') =>
              jobs'[worker.job_id].message = "mirror error"]_vars

\* A job of product pid has reached failed and no job of it is queued or
\* running, in the table or among the rows request q has flushed.
FailedAndInactive(q, pid) ==
    /\ \E j \in JobIds : jobs[j].product_id = pid /\ jobs[j].status = "failed"
    /\ ~find_active_job(jobs, q.pending, pid)

\* C30: once a job of a product has failed (and none of its jobs is queued or
\* running), a mirror request naming the product enqueues it, whatever
\* happened before, a kill of the process and a restart included.
C30_FailedProductReadmitted ==
    [][\A r \in Requests :
         LET q == requests[r]
         IN (Classified(r) /\ FailedAndInactive(q, q.product_ids[q.i])) =>
                requests'[r].enqueued = Append(q.enqueued, q.product_ids[q.i])]_vars

\* C31: a worker task that was started eventually ends with the mutex released,
\* the break that leads there is taken only when no job is queued, and a job
\* that is completed or failed is never set running again.
C31_WorkerDrainsAndExits ==
    /\ (workerTask = "running") ~> (workerTask = "done" /\ ~workerLock /\ worker.pc = "idle")
    /\ [][/\ (worker.pc = "select" /\ worker'.pc = "closing") =>
                 \A j \in JobIds : jobs[j].status # "queued"
          /\ \A j \in JobIds : jobs[j].status \in TerminalStatuses =>
                 jobs'[j].status = jobs[j].status]_vars

\* The task has ended after draining two jobs, one completed and one failed.
C31_Witness ==
    /\ workerTask = "done"
    /\ ~workerLock
    /\ \E j, k \in JobIds : jobs[j].status = "completed" /\ jobs[k].status = "failed"

\* The handler of request r, called with an empty product list, returns.
EmptyRequestAnswered(r) ==
    /\ requests[r].pc = "finish"
    /\ requests[r].product_ids = <<>>
    /\ requests'[r].pc = "idle"

\* C32: a mirror request with an empty product list is answered 400 with
\* nothing enqueued and nothing skipped; no job row is added or changed, the
\* worker is not triggered, and the catalog, the disk and the published tree
\* stay as they are. Its handler never reaches the commit or the trigger.
C32_EmptyRequestRejected ==
    [][\A r \in Requests :
         /\ EmptyRequestAnswered(r) =>
                /\ response' = [status |-> 400, enqueued |-> <<>>, skipped |-> <<>>]
                /\ UNCHANGED <<jobs, worker, workerTask, workerLock, streams, images,
                               artifacts, disk, tree>>
         /\ (requests[r].pc # "idle" /\ requests[r].product_ids = <<>>) =>
                requests[r].pc = "finish"]_vars

\* An empty request was answered 400 while a job was waiting and no worker task
\* was alive to pick it up.
C32_Witness ==
    /\ response.status = 400
    /\ workerTask = "done"
    /\ \E j \in JobIds : jobs[j].status = "queued"

\* The step is the startup of the process.
StartupStep == ~up /\ up'

\* C33: job rows are never removed, and the status of a job changes only from
\* queued to running, from running to completed or failed, or, in the startup
\* of the process only, from running to queued; a completed or failed job
\* keeps its status.
C33_JobStatusTransitions ==
    [][/\ Len(jobs') >= Len(jobs)
       /\ \A j \in JobIds :
             LET s == jobs[j].status
                 t == jobs'[j].status
             IN s # t =>
                  \/ s = "queued" /\ t = "running" /\ ~StartupStep
                  \/ s = "running" /\ t \in {"completed", "failed"} /\ ~StartupStep
                  \/ s = "running" /\ t = "queued" /\ StartupStep]_vars

\* A job requeued by the startup has run again and failed, next to a job that
\* completed.
C33_Witness ==
    /\ \E j \in resumed : jobs[j].status = "failed"
    /\ \E k \in JobIds \ resumed : jobs[k].status = "completed"

\* The timestamps and the progress of job row job agree with its status.
TimesAgreeWithStatus(job) ==
    /\ job.progress \in 0..100
    /\ job.status = "queued" => job.progress = 0 /\ ~job.started_at /\ ~job.finished_at
    /\ job.status = "running" => job.progress = 10 /\ job.started_at /\ ~job.finished_at
    /\ job.status = "completed" => job.progress = 100 /\ job.finished_at
    /\ job.status = "failed" => job.finished_at

\* C34: in every committed state the fields of each job agree with its status:
\* queued has progress 0 and no timestamps, running has progress 10 and
\* started_at only, completed has progress 100, finished_at and an image_id,
\* failed has finished_at; progress lies in 0..100.
C34_JobFieldsAgreeWithStatus ==
    \A j \in JobIds :
        /\ TimesAgreeWithStatus(jobs[j])
        /\ jobs[j].status = "completed" => jobs[j].image_id # 0

\* The same without the image_id of completed jobs.
C34_TimesAgreeWithStatus == \A j \in JobIds : TimesAgreeWithStatus(jobs[j])

\* The Image rows of the run in progress: the id the run was given, for its
\* product.
RunImages(rows) ==
    {im \in rows : im.id = worker.image_id /\ im.product_id = worker.product_id}

\* The run is between the commit of its Image and the commit that ends it.
RunDownloading == worker.pc \in {"download", "promote", "fail_commit"}

FetchFailureMarked == EngineFailed /\ worker.image_id = 0 /\ worker' # worker

\* C36: a run that fails before the eviction, and the step that marks its job
\* failed, leave the Stream, Image and Artifact rows, the files on disk and the
\* published tree exactly as they were.
C36_EarlyFailureChangesNothing ==
    [][(FetchStageFailed \/ FetchFailureMarked) =>
          UNCHANGED <<streams, images, artifacts, disk, tree>>]_vars

\* A run of a product has failed at its fetch stage while the ready Image of
\* an earlier run of that product is in the catalog, its files on disk, listed
\* in the published tree.
C36_Witness ==
    /\ EngineFailed
    /\ worker.image_id = 0
    /\ \E im \in images :
          /\ im.product_id = worker.product_id
          /\ im.status = "ready"
          /\ ImageArtifacts(artifacts, im.id) # {}
          /\ \A a \in ImageArtifacts(artifacts, im.id) : disk[a.relative_path] # NoFile
          /\ Listed(tree, UpstreamStream, worker.product_id)

\* The worker takes a pass of the items loop in this step.
DownloadPass == worker.pc = "download" /\ worker' # worker /\ up'

\* C37: the k-th pass of the items loop of a run attempts the k-th item of the
\* upstream items map and no other: a pass that succeeds records that item and
\* moves to the next one, a pass that fails ends the loop, and once the loop
\* has ended no pass follows in that run and the run writes no file.
C37_ItemsInOrderOnceUntilFailure ==
    [][/\ DownloadPass =>
             /\ Len(worker.artifact_rows) = worker.idx - 1
             /\ \/ /\ worker'.idx = worker.idx + 1
                   /\ worker'.pc = IF worker.idx = Len(worker.items) THEN "promote" ELSE "download"
                   /\ Len(worker'.artifact_rows) = worker.idx
                   /\ \A k \in 1..worker.idx :
                         /\ worker'.artifact_rows[k].name = worker.items[k].name
                         /\ worker'.artifact_rows[k].relative_path = worker.items[k].path
                   /\ \A f \in Paths \ {worker.items[worker.idx].path} : disk'[f] = disk[f]
                \/ /\ worker'.pc = "fail_commit"
                   /\ worker'.artifact_rows = worker.artifact_rows
                   /\ \A f \in Paths \ {worker.items[worker.idx].path} : disk'[f] = disk[f]
                   /\ disk'[worker.items[worker.idx].path] = NoFile
       /\ worker'.pc = "download" => worker.pc \in {"create", "download"}
       /\ (worker.pc \in {"promote", "fail_commit", "rebuild_read", "rebuild_write", "mark"}
             /\ worker' # worker) => disk' = disk]_vars

\* The first of two items has failed: the loop has ended and the file of the
\* second item is not on disk.
C37_Witness ==
    /\ worker.pc = "fail_commit"
    /\ Len(worker.items) = 2
    /\ worker.artifact_rows = <<>>
    /\ disk[worker.items[1].path] = NoFile
    /\ disk[worker.items[2].path] = NoFile

\* C38: in the published tree every stream listed in index.json has its
\* products file, and the product ids of its index entry, each listed once,
\* are exactly the keys of the products map of that file.
C38_IndexMatchesProductsFiles ==
    \A s \in DOMAIN tree.index :
        /\ s \in DOMAIN tree.files
        /\ Range(tree.index[s]) = DOMAIN tree.files[s]
        /\ Len(tree.index[s]) = Cardinality(DOMAIN tree.files[s])

\* The tree lists the upstream stream with two products and the custom stream
\* with its product.
C38_Witness ==
    /\ DOMAIN tree.index = {UpstreamStream, CustomStream}
    /\ Len(tree.index[UpstreamStream]) = 2
    /\ CustomProduct \in DOMAIN tree.files[CustomStream]

\* C39: in every committed state each Artifact row belongs to an Image that
\* exists and is ready: an Image in mirroring or error has no Artifact rows and
\* no Artifact row outlives its Image.
C39_ArtifactsBelongToReadyImages ==
    \A a \in artifacts :
        \E im \in images : im.id = a.image_id /\ im.status = "ready"

====
